---------------------------- MODULE Spec2Model ----------------------------
(***************************************************************************)
(* The decision-to-batch reconciliation loop of the Cloudflare bouncer.    *)
(*                                                                         *)
(* src/main.go runs one goroutine with a select over the tomb, the         *)
(* Cloudflare ticker and the CrowdSec decision stream.  The stream case    *)
(* folds a batch into addIPMap / deleteIPMap / cloudflareIDByIP; the       *)
(* ticker case sends the pending sets to Cloudflare and clears them.       *)
(* src/unnamed/part_000 is a second main of the repository that flushes    *)
(* after every batch; it is modelled by the specification Part0Spec.       *)
(*                                                                         *)
(* main.go:140 calls CollectLAPIStream, whose body is not among the        *)
(* sources; the model takes it from the collection loops of                *)
(* part_000:83-95, which do what section 4.1 of the specification says.    *)
(* The Cloudflare gateway is outside the repository: a create-items call   *)
(* returns one item per request under a fresh identifier, and the gateway  *)
(* either keeps or replaces an earlier item of the same IP.                *)
(* Not modelled: the t.Dying() case (nothing kills the tomb) and           *)
(* HandleSignals.                                                          *)
(***************************************************************************)
EXTENDS Naturals, Sequences, FiniteSets

(* -------- bounds of the model -------- *)
\* identifiers the gateway can issue before the model stops creating items
MaxID == 3
\* decisions collected in one window (between two flushes)
MaxWindow == 3
\* decisions in one list (New or Deleted) of a stream batch
MaxBatch == 2

\* the IP addresses the feed talks about
IPs == {"10.0.0.1", "10.0.0.2"}

\* the value a Go map lookup yields for a missing key: the empty string.
\* Remote identifiers are modelled as 1, 2, ..., and the empty string as 0.
EmptyID == 0

\* the fixed annotation of a create request
Comment == "Added by crowdsec bouncer"

VARIABLES
    pc,                \* where the reconciliation goroutine is
    cloudflareIDByIP,  \* IPIndex: ip -> remoteID
    addIPMap,          \* PendingAdd: set of create requests
    deleteIPMap,       \* PendingDelete: set of delete requests
    addIPs,            \* the ticker case's slice of create requests
    deleteIPs,         \* the ticker case's slice of delete requests
    Stream,            \* csLapi.Stream: "idle", or "ready" (a sender waits)
    remote,            \* the items of the remote IP list
    nextID,            \* the next identifier the gateway issues
    failed,            \* a remote call has returned an error
    wtrace,            \* history: decisions collected in this window
    owedAdd,           \* history: IPs of new decisions not yet sent
    owedDel,           \* history: (ip, remoteID) of deletes not yet sent
    cycle,             \* history: calls issued by the current/last flush
    since,             \* history: what happened since the last batch
    requested          \* history: remoteIDs sent in delete-items calls

vars == <<pc, cloudflareIDByIP, addIPMap, deleteIPMap, addIPs, deleteIPs,
          Stream, remote, nextID, failed, wtrace, owedAdd, owedDel,
          cycle, since, requested>>

(* -------- helpers -------- *)
Range(s) == {s[i] : i \in 1..Len(s)}

\* all sequences over S of length at most n
SeqsUpTo(S, n) == UNION {[1..k -> S] : k \in 0..n}

\* the orders in which ranging over a Go map can visit its keys
KeyOrders(m) ==
    {s \in [1..Cardinality(m) -> m] : \A k \in m : \E i \in DOMAIN s : s[i] = k}

\* m[k] of a Go map[string]string: the zero value for a missing key
Lookup(m, k) == IF k \in DOMAIN m THEN m[k] ELSE EmptyID

\* m[k] = v
Store(m, k, v) == [x \in DOMAIN m \cup {k} |-> IF x = k THEN v ELSE m[x]]

\* delete(m, k)
Remove(m, k) == [x \in DOMAIN m \ {k} |-> m[x]]

\* a create request whose comment says when the decision was collected
CreateRequestStamped(ip) == [IP |-> ip, Comment |-> <<Comment, Len(wtrace)>>]

CreateRequest(ip) == [IP |-> ip, Comment |-> Comment]

DeleteRequest(id) == [ID |-> id]

\* the stream batches the feed can deliver
Batches == [New : SeqsUpTo(IPs, MaxBatch), Deleted : SeqsUpTo(IPs, MaxBatch)]

NoCalls == [Create |-> 0, Delete |-> 0]

(* -------- batch collection -------- *)
\* the deleted decisions handled without looking whether the index has
\* the IP
CollectDeletedUnchecked(ds, dmap, idx) ==
    LET RECURSIVE Fold(_, _, _)
        Fold(rest, dm, ix) ==
            IF rest = <<>>
            THEN [deleteIPMap |-> dm, cloudflareIDByIP |-> ix]
            ELSE Fold(Tail(rest),
                      dm \cup {DeleteRequest(Lookup(ix, Head(rest)))},
                      Remove(ix, Head(rest)))
    IN  Fold(ds, dmap, idx)

\* the deleted decisions handled without delete(cloudflareIdByIp, ...)
CollectDeletedKeepsIndex(ds, dmap, idx) ==
    LET RECURSIVE Fold(_, _)
        Fold(rest, dm) ==
            IF rest = <<>>
            THEN [deleteIPMap |-> dm, cloudflareIDByIP |-> idx]
            ELSE IF Lookup(idx, Head(rest)) # EmptyID
                 THEN Fold(Tail(rest), dm \cup {DeleteRequest(idx[Head(rest)])})
                 ELSE Fold(Tail(rest), dm)
    IN  Fold(ds, dmap)

RECURSIVE CollectDeleted(_, _, _)
CollectDeleted(ds, dmap, idx) ==
    IF ds = <<>>
    THEN [deleteIPMap |-> dmap, cloudflareIDByIP |-> idx]
    ELSE IF Lookup(idx, Head(ds)) # EmptyID
         THEN CollectDeleted(Tail(ds),
                             dmap \cup {DeleteRequest(idx[Head(ds)])},
                             Remove(idx, Head(ds)))
         ELSE CollectDeleted(Tail(ds), dmap, idx)

RECURSIVE CollectNew(_, _)
CollectNew(ns, amap) ==
    IF ns = <<>>
    THEN amap
    ELSE CollectNew(Tail(ns), amap \cup {CreateRequest(Head(ns))})

\* history: the decisions of a batch in the order the collector handles them
RECURSIVE Decisions(_, _)
Decisions(kind, s) ==
    IF s = <<>> THEN <<>>
    ELSE <<[Kind |-> kind, Value |-> Head(s)]>> \o Decisions(kind, Tail(s))

\* history: the (ip, remoteID) pairs a list of deleted decisions resolves to
RECURSIVE Resolved(_, _)
Resolved(ds, idx) ==
    IF ds = <<>> THEN {}
    ELSE IF Head(ds) \in DOMAIN idx
         THEN {[IP |-> Head(ds), ID |-> idx[Head(ds)]]}
                  \cup Resolved(Tail(ds), Remove(idx, Head(ds)))
         ELSE Resolved(Tail(ds), idx)

Init ==
    /\ pc = "select"
    /\ cloudflareIDByIP = <<>>
    /\ addIPMap = {}
    /\ deleteIPMap = {}
    /\ addIPs = <<>>
    /\ deleteIPs = <<>>
    /\ Stream = "idle"
    /\ remote = {}
    /\ nextID = 1
    /\ failed = FALSE
    /\ wtrace = <<>>
    /\ owedAdd = {}
    /\ owedDel = {}
    /\ cycle = NoCalls
    /\ since = "batch"
    /\ requested = {}

Running == pc # "fatal"

\* csLapi.Run offers a batch on the unbuffered Stream channel and blocks
Deliver ==
    /\ Running
    /\ Stream = "idle"
    /\ Stream' = "ready"
    /\ UNCHANGED <<pc, cloudflareIDByIP, addIPMap, deleteIPMap, addIPs,
                   deleteIPs, remote, nextID, failed, wtrace,
                   owedAdd, owedDel, cycle, since, requested>>

\* the collector with a new decision entering its IP in the index
CollectIndexesNew(batch) ==
    LET d == CollectDeleted(batch.Deleted, deleteIPMap, cloudflareIDByIP)
        RECURSIVE Enter(_, _)
        Enter(ns, idx) ==
            IF ns = <<>> THEN idx
            ELSE Enter(Tail(ns), Store(idx, Head(ns), Lookup(idx, Head(ns))))
    IN  /\ deleteIPMap' = d.deleteIPMap
        /\ cloudflareIDByIP' = Enter(batch.New, d.cloudflareIDByIP)
        /\ addIPMap' = CollectNew(batch.New, addIPMap)
        /\ wtrace' = wtrace \o Decisions("deleted", batch.Deleted)
                            \o Decisions("new", batch.New)
        /\ owedAdd' = owedAdd \cup Range(batch.New)
        /\ owedDel' = owedDel \cup Resolved(batch.Deleted, cloudflareIDByIP)

\* the collector with a deleted decision cancelling the pending add of its IP
CollectCancelsAdds(batch) ==
    LET d == CollectDeleted(batch.Deleted, deleteIPMap, cloudflareIDByIP)
        kept == {r \in addIPMap : r.IP \notin Range(batch.Deleted)}
    IN  /\ deleteIPMap' = d.deleteIPMap
        /\ cloudflareIDByIP' = d.cloudflareIDByIP
        /\ addIPMap' = CollectNew(batch.New, kept)
        /\ wtrace' = wtrace \o Decisions("deleted", batch.Deleted)
                            \o Decisions("new", batch.New)
        /\ owedAdd' = owedAdd \cup Range(batch.New)
        /\ owedDel' = owedDel \cup Resolved(batch.Deleted, cloudflareIDByIP)

\* what CollectLAPIStream does to the three maps, and the history of it
CollectLAPIStream(batch) ==
    LET d == CollectDeleted(batch.Deleted, deleteIPMap, cloudflareIDByIP)
    IN  /\ deleteIPMap' = d.deleteIPMap
        /\ cloudflareIDByIP' = d.cloudflareIDByIP
        /\ addIPMap' = CollectNew(batch.New, addIPMap)
        /\ wtrace' = wtrace \o Decisions("deleted", batch.Deleted)
                            \o Decisions("new", batch.New)
        /\ owedAdd' = owedAdd \cup Range(batch.New)
        /\ owedDel' = owedDel \cup Resolved(batch.Deleted, cloudflareIDByIP)

\* the stream consumed by a goroutine of its own, whatever the ticker case
\* is doing
CollectAnytime ==
    /\ Running
    /\ Stream = "ready"
    /\ \E batch \in Batches :
          /\ Len(wtrace) + Len(batch.New) + Len(batch.Deleted) <= MaxWindow
          /\ CollectLAPIStream(batch)
    /\ Stream' = "idle"
    /\ since' = "batch"
    /\ UNCHANGED <<pc, addIPs, deleteIPs, remote, nextID, failed, cycle,
                   requested>>

\* case streamDecision := <-csLapi.Stream
Collect ==
    /\ pc = "select"
    /\ Stream = "ready"
    /\ \E batch \in Batches :
          /\ Len(wtrace) + Len(batch.New) + Len(batch.Deleted) <= MaxWindow
          /\ CollectLAPIStream(batch)
    /\ Stream' = "idle"
    /\ since' = "batch"
    /\ UNCHANGED <<pc, addIPs, deleteIPs, remote, nextID, failed, cycle,
                   requested>>

(* -------- the remote gateway -------- *)
\* a gateway that numbers the items of every response from 1
IssuedReused(req, first) ==
    [i \in 1..Len(req) |-> [IP |-> req[i].IP, ID |-> i]]

\* the items a successful create-items call returns: one per requested
\* item, each under a fresh identifier
Issued(req, first) ==
    [i \in 1..Len(req) |-> [IP |-> req[i].IP, ID |-> first + i - 1]]

\* how the gateway treats an item whose IP is already on the list
GatewayModes == {"append", "replace"}

RemoteAfterCreate(items, mode) ==
    IF mode = "append"
    THEN remote \cup Range(items)
    ELSE {r \in remote : \A i \in DOMAIN items : r.IP # items[i].IP}
             \cup Range(items)

RemoteAfterDelete(req) ==
    {r \in remote : \A i \in DOMAIN req : r.ID # req[i].ID}

(* -------- the ticker case -------- *)
\* for _, ipItem := range ipItems { cloudflareIDByIP[ipItem.IP] = ipItem.ID }
\* the loop over the returned items starting at the second one
ApplyItemsSkipsFirst(items, idx) ==
    LET RECURSIVE Apply(_, _)
        Apply(rest, m) ==
            IF rest = <<>> THEN m
            ELSE Apply(Tail(rest), Store(m, Head(rest).IP, Head(rest).ID))
    IN  IF items = <<>> THEN idx ELSE Apply(Tail(items), idx)

RECURSIVE ApplyItems(_, _)
ApplyItems(items, idx) ==
    IF items = <<>> THEN idx
    ELSE ApplyItems(Tail(items), Store(idx, Head(items).IP, Head(items).ID))

\* history: the decisions a request that has been answered takes off the
\* owed sets
SentAdd(req) == {req[i].IP : i \in DOMAIN req}

SentDel(req) == {d \in owedDel : \E i \in DOMAIN req : req[i].ID = d.ID}

\* history: the remoteIDs a delete-items request asks to delete
SentIDs(req) == {req[i].ID : i \in DOMAIN req}

\* history: "batch" until a flush that issued a call completes ("flushed"),
\* then "reticked" once a further tick has fired with no batch in between
AfterTick == IF since = "batch" THEN "batch" ELSE "reticked"

AfterFlush(sofar, calls) ==
    IF sofar = "reticked" THEN "reticked"
    ELSE IF calls > 0 THEN "flushed" ELSE "batch"

\* the flush with the delete map left as it is
FlushKeepsDeletes ==
    /\ deleteIPMap' = deleteIPMap
    /\ addIPMap' = {}
    /\ addIPs' = <<>>
    /\ deleteIPs' = <<>>
    /\ wtrace' = <<>>
    /\ pc' = "select"

\* the flush with the add map left as it is
FlushKeepsAdds ==
    /\ deleteIPMap' = {}
    /\ addIPMap' = addIPMap
    /\ addIPs' = <<>>
    /\ deleteIPs' = <<>>
    /\ wtrace' = <<>>
    /\ pc' = "select"

\* "// Flush": both pending maps are replaced by empty ones
Flush ==
    /\ deleteIPMap' = {}
    /\ addIPMap' = {}
    /\ addIPs' = <<>>
    /\ deleteIPs' = <<>>
    /\ wtrace' = <<>>
    /\ pc' = "select"

\* the second half of the ticker case: the delete slice, the delete-items
\* call when the slice is not empty, else the flush
DeleteStage(creates, sofar) ==
    \E order \in KeyOrders(deleteIPMap) :
        IF Len(order) > 0
        THEN /\ deleteIPs' = order
             /\ pc' = "delete"
             /\ cycle' = [Create |-> creates, Delete |-> 1]
             /\ since' = sofar
             /\ UNCHANGED <<addIPMap, deleteIPMap, addIPs, wtrace>>
        ELSE /\ Flush
             /\ cycle' = [Create |-> creates, Delete |-> 0]
             /\ since' = AfterFlush(sofar, creates)

\* the ticker case taken only when no batch waits on the stream
TickWhenStreamIdle ==
    /\ pc = "select"
    /\ Stream # "ready"
    /\ nextID + Cardinality(addIPMap) <= MaxID + 1
    /\ \E order \in KeyOrders(addIPMap) :
          IF Len(order) > 0
          THEN /\ addIPs' = order
               /\ pc' = "create"
               /\ cycle' = [Create |-> 1, Delete |-> 0]
               /\ since' = AfterTick
               /\ UNCHANGED <<addIPMap, deleteIPMap, deleteIPs, wtrace>>
          ELSE DeleteStage(0, AfterTick)
    /\ UNCHANGED <<cloudflareIDByIP, Stream, remote, nextID, failed,
                   owedAdd, owedDel, requested>>

\* the ticker case without the length test before the create-items call
TickAlwaysCreates ==
    /\ pc = "select"
    /\ nextID + Cardinality(addIPMap) <= MaxID + 1
    /\ \E order \in KeyOrders(addIPMap) :
          /\ addIPs' = order
          /\ pc' = "create"
          /\ cycle' = [Create |-> 1, Delete |-> 0]
          /\ since' = AfterTick
          /\ UNCHANGED <<addIPMap, deleteIPMap, deleteIPs, wtrace>>
    /\ UNCHANGED <<cloudflareIDByIP, Stream, remote, nextID, failed,
                   owedAdd, owedDel, requested>>

\* the ticker case with the delete-items call made first
TickDeletesFirst ==
    /\ pc = "select"
    /\ nextID + Cardinality(addIPMap) <= MaxID + 1
    /\ IF deleteIPMap # {}
       THEN \E order \in KeyOrders(deleteIPMap) :
               /\ deleteIPs' = order
               /\ pc' = "delete"
               /\ cycle' = [Create |-> 0, Delete |-> 1]
               /\ since' = AfterTick
               /\ UNCHANGED <<addIPMap, deleteIPMap, addIPs, wtrace>>
       ELSE \E order \in KeyOrders(addIPMap) :
               IF Len(order) > 0
               THEN /\ addIPs' = order
                    /\ pc' = "create"
                    /\ cycle' = [Create |-> 1, Delete |-> 0]
                    /\ since' = AfterTick
                    /\ UNCHANGED <<addIPMap, deleteIPMap, deleteIPs, wtrace>>
               ELSE DeleteStage(0, AfterTick)
    /\ UNCHANGED <<cloudflareIDByIP, Stream, remote, nextID, failed,
                   owedAdd, owedDel, requested>>

\* case <-cloudflareTicker.C: the create slice, and the create-items call
\* when the slice is not empty
Tick ==
    /\ pc = "select"
    /\ nextID + Cardinality(addIPMap) <= MaxID + 1
    /\ \E order \in KeyOrders(addIPMap) :
          IF Len(order) > 0
          THEN /\ addIPs' = order
               /\ pc' = "create"
               /\ cycle' = [Create |-> 1, Delete |-> 0]
               /\ since' = AfterTick
               /\ UNCHANGED <<addIPMap, deleteIPMap, deleteIPs, wtrace>>
          ELSE DeleteStage(0, AfterTick)
    /\ UNCHANGED <<cloudflareIDByIP, Stream, remote, nextID, failed,
                   owedAdd, owedDel, requested>>

\* CreateIPListItems returns the created items: they are stored in the
\* index, and the ticker case goes on to its delete half
CreateOK ==
    /\ pc = "create"
    /\ \E mode \in GatewayModes :
          LET ipItems == Issued(addIPs, nextID)
          IN  /\ remote' = RemoteAfterCreate(ipItems, mode)
              /\ nextID' = nextID + Len(ipItems)
              /\ cloudflareIDByIP' = ApplyItems(ipItems, cloudflareIDByIP)
    /\ DeleteStage(cycle.Create, since)
    /\ owedAdd' = owedAdd \ SentAdd(addIPs)
    /\ UNCHANGED <<Stream, failed, owedDel, requested>>

\* log.Fatal(err): the process exits with the error
Fatal ==
    /\ failed' = TRUE
    /\ pc' = "fatal"
    /\ UNCHANGED <<cloudflareIDByIP, addIPMap, deleteIPMap, addIPs, deleteIPs,
                   Stream, remote, nextID, wtrace, owedAdd, owedDel,
                   cycle, since, requested>>

\* CreateIPListItems returns an error
CreateFail ==
    /\ pc = "create"
    /\ Fatal

\* DeleteIPListItems returns: the items are gone, and the maps are flushed
DeleteOK ==
    /\ pc = "delete"
    /\ remote' = RemoteAfterDelete(deleteIPs)
    /\ Flush
    /\ since' = AfterFlush(since, 1)
    /\ owedDel' = owedDel \ SentDel(deleteIPs)
    /\ requested' = requested \cup SentIDs(deleteIPs)
    /\ UNCHANGED <<cloudflareIDByIP, Stream, nextID, failed, owedAdd, cycle>>

\* DeleteIPListItems returns an error
DeleteFail ==
    /\ pc = "delete"
    /\ Fatal

Next ==
    \/ Deliver
    \/ Collect
    \/ Tick
    \/ CreateOK
    \/ CreateFail
    \/ DeleteOK
    \/ DeleteFail

Spec == Init /\ [][Next]_vars

\* the loop when every remote call succeeds
LiveNext ==
    \/ Deliver
    \/ Collect
    \/ Tick
    \/ CreateOK
    \/ DeleteOK

\* the ticker keeps firing and select picks among its ready cases at
\* random, so the ticker case is not passed over for ever; a remote call
\* that succeeds returns
LiveSpec ==
    /\ Init
    /\ [][LiveNext]_vars
    /\ WF_vars(Tick)
    /\ WF_vars(CreateOK)
    /\ WF_vars(DeleteOK)

(***************************************************************************)
(* src/unnamed/part_000: the main that flushes after every batch.  Its     *)
(* cloudflareIdByIp, addIpsMap, deleteIpsMap, addIps and deleteIps are     *)
(* held in cloudflareIDByIP, addIPMap, deleteIPMap, addIPs and deleteIPs;  *)
(* the two maps and the two slices are created anew for every batch.       *)
(***************************************************************************)
Part0Init ==
    /\ pc = "range"
    /\ cloudflareIDByIP = <<>>
    /\ addIPMap = {}
    /\ deleteIPMap = {}
    /\ addIPs = <<>>
    /\ deleteIPs = <<>>
    /\ Stream = "idle"
    /\ remote = {}
    /\ nextID = 1
    /\ failed = FALSE
    /\ wtrace = <<>>
    /\ owedAdd = {}
    /\ owedDel = {}
    /\ cycle = NoCalls
    /\ since = "batch"
    /\ requested = {}

\* the end of the loop body: the maps and slices of this batch are dropped
Part0EndOfBody ==
    /\ deleteIPMap' = {}
    /\ addIPMap' = {}
    /\ addIPs' = <<>>
    /\ deleteIPs' = <<>>
    /\ pc' = "range"

\* no add in the batch: the delete slice, and the delete-items call when
\* it is not empty
Part0DeleteStage(dmap, creates) ==
    \E order \in KeyOrders(dmap) :
        IF Len(order) > 0
        THEN /\ deleteIPs' = order
             /\ deleteIPMap' = dmap
             /\ addIPMap' = {}
             /\ addIPs' = <<>>
             /\ pc' = "delete0"
             /\ cycle' = [Create |-> creates, Delete |-> 1]
        ELSE /\ Part0EndOfBody
             /\ cycle' = [Create |-> creates, Delete |-> 0]

\* for streamDecision := range csLapi.Stream: the batch is folded into
\* fresh maps, and the create-items call is made when there is an add
Part0Receive ==
    /\ pc = "range"
    /\ Stream = "ready"
    /\ Stream' = "idle"
    /\ \E batch \in Batches :
          LET d == CollectDeleted(batch.Deleted, {}, cloudflareIDByIP)
              amap == CollectNew(batch.New, {})
          IN  /\ Len(batch.New) + Len(batch.Deleted) <= MaxWindow
              /\ nextID + Cardinality(amap) <= MaxID + 1
              /\ wtrace' = Decisions("deleted", batch.Deleted)
                               \o Decisions("new", batch.New)
              /\ cloudflareIDByIP' = d.cloudflareIDByIP
              /\ owedAdd' = Range(batch.New)
              /\ owedDel' = Resolved(batch.Deleted, cloudflareIDByIP)
              /\ \E order \in KeyOrders(amap) :
                    IF Len(order) > 0
                    THEN /\ addIPs' = order
                         /\ addIPMap' = amap
                         /\ deleteIPMap' = d.deleteIPMap
                         /\ pc' = "create0"
                         /\ cycle' = [Create |-> 1, Delete |-> 0]
                         /\ UNCHANGED deleteIPs
                    ELSE Part0DeleteStage(d.deleteIPMap, 0)
    /\ UNCHANGED <<remote, nextID, failed, since, requested>>

\* CreateIPListItems returns the created items
Part0CreateOK ==
    /\ pc = "create0"
    /\ \E mode \in GatewayModes :
          LET ipItems == Issued(addIPs, nextID)
          IN  /\ remote' = RemoteAfterCreate(ipItems, mode)
              /\ nextID' = nextID + Len(ipItems)
              /\ cloudflareIDByIP' = ApplyItems(ipItems, cloudflareIDByIP)
    /\ \E order \in KeyOrders(deleteIPMap) :
          IF Len(order) > 0
          THEN /\ deleteIPs' = order
               /\ pc' = "delete0"
               /\ cycle' = [Create |-> 1, Delete |-> 1]
               /\ UNCHANGED <<addIPMap, deleteIPMap, addIPs>>
          ELSE /\ Part0EndOfBody
               /\ UNCHANGED cycle
    /\ owedAdd' = owedAdd \ SentAdd(addIPs)
    /\ UNCHANGED <<Stream, failed, wtrace, owedDel, since, requested>>

\* CreateIPListItems returns an error: log.Fatal(err)
Part0CreateFail ==
    /\ pc = "create0"
    /\ Fatal

\* DeleteIPListItems returns without an error
Part0DeleteOK ==
    /\ pc = "delete0"
    /\ remote' = RemoteAfterDelete(deleteIPs)
    /\ Part0EndOfBody
    /\ owedDel' = owedDel \ SentDel(deleteIPs)
    /\ requested' = requested \cup SentIDs(deleteIPs)
    /\ UNCHANGED <<cloudflareIDByIP, Stream, nextID, failed, wtrace, owedAdd,
                   cycle, since>>

\* DeleteIPListItems returns an error: both results of the call are
\* discarded and the loop takes the next batch
Part0DeleteErr ==
    /\ pc = "delete0"
    /\ failed' = TRUE
    /\ requested' = requested \cup SentIDs(deleteIPs)
    /\ Part0EndOfBody
    /\ UNCHANGED <<cloudflareIDByIP, Stream, remote, nextID, wtrace, owedAdd,
                   owedDel, cycle, since>>

Part0Next ==
    \/ Deliver
    \/ Part0Receive
    \/ Part0CreateOK
    \/ Part0CreateFail
    \/ Part0DeleteOK
    \/ Part0DeleteErr

Part0Spec == Part0Init /\ [][Part0Next]_vars


(***************************************************************************)
(* Properties                                                              *)
(***************************************************************************)
IPsOf(reqs) == {r.IP : r \in reqs}

IDsOf(reqs) == {r.ID : r \in reqs}

Distinct(s) == \A i, j \in DOMAIN s : s[i] = s[j] => i = j

\* the decisions the step from the current state to the next has collected
StepDecisions == SubSeq(wtrace', Len(wtrace) + 1, Len(wtrace'))

CollectStep == pc = "select" /\ Stream = "ready" /\ Stream' = "idle"

Flushing == pc \in {"create", "delete"}

\* C1: no decision is lost or double-applied across a flush boundary.
\* While the loop waits in the select, the pending maps hold exactly the
\* decisions collected and not yet sent; the create-items request in flight
\* carries exactly the IPs of the new decisions collected since the previous
\* request, each once; the delete-items request in flight carries exactly
\* the remoteIDs of the deleted decisions that resolved through the index,
\* each once; and once a request is answered nothing of it stays pending.
NoDecisionLostOrDoubled ==
    /\ pc = "select" =>
          /\ IPsOf(addIPMap) = owedAdd
          /\ IDsOf(deleteIPMap) = IDsOf(owedDel)
    /\ pc = "create" =>
          /\ SentAdd(addIPs) = owedAdd
          /\ Distinct([i \in DOMAIN addIPs |-> addIPs[i].IP])
          /\ IDsOf(deleteIPMap) = IDsOf(owedDel)
    /\ pc = "delete" =>
          /\ owedAdd = {}
          /\ IDsOf(Range(deleteIPs)) = IDsOf(owedDel)
          /\ Distinct(deleteIPs)

\* a flush that follows an earlier flush has sent its adds and is sending
\* its deletes
FlushAfterFlushSendsBoth ==
    /\ pc = "delete"
    /\ addIPs # <<>>
    /\ Len(wtrace) >= 2
    /\ \E d \in owedDel : d.ID \in IDsOf(Range(deleteIPs))

\* C2: round trip.  When a create-items call succeeds, every item it has
\* created is in the index under its remoteID right after the call; a
\* deleted decision collected for an IP the index holds puts that IP's
\* remoteID into the pending deletes, where it stays until the flush; and
\* the flush issues one delete-items call whose list holds every pending
\* remoteID exactly once.
RoundTrip ==
    [][/\ (pc = "create" /\ pc' \in {"delete", "select"}) =>
             \A r \in remote' \ remote :
                 Lookup(cloudflareIDByIP', r.IP) = r.ID
       /\ CollectStep =>
             \A k \in DOMAIN StepDecisions :
                 (/\ StepDecisions[k].Kind = "deleted"
                  /\ StepDecisions[k].Value \in DOMAIN cloudflareIDByIP)
                 => DeleteRequest(cloudflareIDByIP[StepDecisions[k].Value])
                        \in deleteIPMap'
       /\ (pc \in {"select", "create"} /\ pc' \in {"select", "create", "delete"})
             => deleteIPMap \subseteq deleteIPMap'
       /\ (pc # "delete" /\ pc' = "delete") =>
             /\ cycle'.Delete = 1
             /\ Distinct(deleteIPs')
             /\ Range(deleteIPs') = deleteIPMap
      ]_vars

\* the delete-items call in flight carries the remoteID of an item the
\* gateway has created, for an IP whose deleted decision is in the window
DeleteOfCreatedItemInFlight ==
    /\ pc = "delete"
    /\ \E r \in remote :
          /\ DeleteRequest(r.ID) \in Range(deleteIPs)
          /\ [Kind |-> "deleted", Value |-> r.IP] \in Range(wtrace)

\* how many times the window has collected the decision (kind, ip)
Collected(kind, ip) ==
    Cardinality({k \in DOMAIN wtrace :
                    wtrace[k] = [Kind |-> kind, Value |-> ip]})

\* how many items of a request list are for ip
ItemsFor(req, ip) == Cardinality({i \in DOMAIN req : req[i].IP = ip})

\* C3: idempotence within a window.  The create-items request list holds
\* each (ip, comment) pair at most once, and holds ip exactly once when the
\* window has collected at least one new decision for ip, and not at all
\* otherwise.
IdempotentWithinWindow ==
    pc = "create" =>
        /\ Distinct(addIPs)
        /\ \A ip \in IPs :
              ItemsFor(addIPs, ip) = IF Collected("new", ip) > 0 THEN 1 ELSE 0

\* a create-items call for an IP the window has collected twice
CreateOfResubmittedIP ==
    /\ pc = "create"
    /\ \E ip \in IPs : Collected("new", ip) >= 2

\* C4: no-op delete.  Collecting a batch whose deleted decisions are all
\* for IPs that are not keys of the index leaves the pending deletes and
\* the index unchanged (and the pending adds too when the batch has no new
\* decision), raises no error, and the loop goes on; and a delete-items
\* request only ever carries remoteIDs of deleted decisions that found
\* their IP in the index.
NoOpDelete ==
    [][/\ (/\ CollectStep
           /\ \A k \in DOMAIN StepDecisions :
                 StepDecisions[k].Kind = "deleted" =>
                     StepDecisions[k].Value \notin DOMAIN cloudflareIDByIP)
          => /\ deleteIPMap' = deleteIPMap
             /\ cloudflareIDByIP' = cloudflareIDByIP
             /\ (\A k \in DOMAIN StepDecisions :
                     StepDecisions[k].Kind = "deleted") => addIPMap' = addIPMap
             /\ pc' = "select"
             /\ ~failed'
       /\ (pc # "delete" /\ pc' = "delete") =>
             IDsOf(Range(deleteIPs')) \subseteq IDsOf(owedDel)
      ]_vars

\* a deleted decision for an IP outside the index has been collected and
\* nothing is pending
NoOpDeleteCollected ==
    /\ pc = "select"
    /\ \E ip \in IPs :
          /\ wtrace = <<[Kind |-> "deleted", Value |-> ip]>>
          /\ ip \notin DOMAIN cloudflareIDByIP
    /\ deleteIPMap = {}
    /\ addIPMap = {}
    /\ remote # {}

\* C5: flush clears state.  When a flush cycle has completed and no decision
\* has been collected since, both pending maps are empty; and a tick that
\* fires after a completed flush with no batch collected in between issues
\* no create-items and no delete-items call.
FlushClearsState ==
    /\ (pc = "select" /\ (wtrace = <<>> \/ since # "batch")) =>
          /\ addIPMap = {}
          /\ deleteIPMap = {}
    /\ since = "reticked" =>
          /\ pc = "select"
          /\ cycle = NoCalls

\* a second tick has fired right after a flush that issued a call, with
\* no batch collected in between
SecondTickAfterFlush ==
    /\ since = "reticked"
    /\ pc = "select"
    /\ remote # {}

\* the decisions the window has collected for ip, oldest first
KindsFor(ip) ==
    LET RECURSIVE Kinds(_)
        Kinds(t) ==
            IF t = <<>> THEN <<>>
            ELSE IF Head(t).Value = ip
                 THEN <<Head(t).Kind>> \o Kinds(Tail(t))
                 ELSE Kinds(Tail(t))
    IN  Kinds(wtrace)

\* the window has collected new(ip), new(ip), deleted(ip), in that order,
\* and the deleted decision found ip in the index under d.ID
Churn(ip, d) ==
    /\ KindsFor(ip) = <<"new", "new", "deleted">>
    /\ d.IP = ip

\* C6: dedup under churn.  When X is in the index under R and the window
\* collects new(X), new(X), deleted(X), X leaves the index when the deleted
\* decision is collected, and the next flush issues one create-items call
\* with exactly one item for X and one delete-items call with R exactly
\* once.
DedupUnderChurn ==
    \A ip \in IPs : \A d \in owedDel :
        Churn(ip, d) =>
            /\ pc = "select" =>
                  /\ ip \notin DOMAIN cloudflareIDByIP
                  /\ CreateRequest(ip) \in addIPMap
                  /\ DeleteRequest(d.ID) \in deleteIPMap
            /\ pc = "create" =>
                  /\ ip \notin DOMAIN cloudflareIDByIP
                  /\ ItemsFor(addIPs, ip) = 1
                  /\ cycle = [Create |-> 1, Delete |-> 0]
            /\ pc = "delete" =>
                  /\ ItemsFor(addIPs, ip) = 1
                  /\ Cardinality({i \in DOMAIN deleteIPs :
                                     deleteIPs[i].ID = d.ID}) = 1
                  /\ cycle = [Create |-> 1, Delete |-> 1]

\* the flush after new(X), new(X), deleted(X) has created X again and is
\* deleting X's prior item
ChurnFlushInFlight ==
    /\ pc = "delete"
    /\ \E ip \in IPs : \E d \in owedDel : Churn(ip, d)

\* C7: the stream consumer is not stalled by a flush.  A remote call of a
\* flush does not return while a batch is waiting on the stream: the batch
\* is taken and folded into the pending sets first.
StreamNotStalledByFlush ==
    [][(Flushing /\ Stream = "ready") => pc' = pc]_vars

\* C8: collection and flush are mutually exclusive.  From the moment a
\* flush has read the pending adds until it clears the maps, no decision is
\* collected and the pending maps are exactly what the flush has read: the
\* only changes are the flush's own (the index update of an answered
\* create-items call, and the final reset).
CollectAndFlushExclusive ==
    [][Flushing =>
          \/ /\ pc' # "select"
             /\ UNCHANGED <<addIPMap, deleteIPMap, wtrace>>
             /\ Range(addIPs) = addIPMap
             /\ pc = "delete" => /\ Range(deleteIPs) = deleteIPMap
                                 /\ UNCHANGED cloudflareIDByIP
          \/ /\ pc' = "select"
             /\ addIPMap' = {}
             /\ deleteIPMap' = {}
             /\ wtrace' = <<>>
      ]_vars

\* a batch waits on the stream while a flush is between reading the
\* pending sets and clearing them
BatchWaitsDuringFlush ==
    /\ pc = "delete"
    /\ Stream = "ready"
    /\ addIPs # <<>>

\* C9: a failed create-items or delete-items call is fatal.  Once a remote
\* call has returned an error the process has exited: the loop neither
\* collects nor flushes again.
RemoteFailureIsFatal ==
    failed => pc = "fatal"

\* the pairs of the index
IndexPairs ==
    {[IP |-> ip, ID |-> cloudflareIDByIP[ip]] : ip \in DOMAIN cloudflareIDByIP}

\* C10: the index is the record of the remote list.  After every completed
\* flush cycle the (ip, remoteID) pairs of the index are the items of the
\* remote list.
IndexIsRemoteList ==
    (pc = "select" /\ wtrace = <<>>) => IndexPairs = remote

\* C11: adds are flushed before deletes.  While the create-items call of a
\* cycle is in flight no delete-items call of the cycle has been issued;
\* when the delete-items call is in flight the create-items call of the
\* cycle, made when there were pending adds, has been answered and every
\* item it created is in the index under an identifier of the remote list;
\* and a cycle issues each call at most once.
CreateBeforeDelete ==
    /\ cycle.Create <= 1
    /\ cycle.Delete <= 1
    /\ pc \in {"create", "create0"} => cycle = [Create |-> 1, Delete |-> 0]
    /\ pc \in {"delete", "delete0"} =>
          /\ cycle.Delete = 1
          /\ cycle.Create = IF addIPMap = {} THEN 0 ELSE 1
          /\ \A r \in addIPMap :
                /\ r.IP \in DOMAIN cloudflareIDByIP
                /\ [IP |-> r.IP, ID |-> cloudflareIDByIP[r.IP]] \in remote
                /\ cloudflareIDByIP[r.IP] >= nextID - Len(addIPs)

\* a cycle that has made its create-items call is making its delete-items
\* call
BothCallsOfOneCycle ==
    /\ pc = "delete"
    /\ cycle = [Create |-> 1, Delete |-> 1]
    /\ addIPs # <<>>

\* the step is the ticker case of the select
TickStep == pc = "select" /\ Stream' = Stream

\* the step is the return of a successful create-items call
CreateReturns == pc = "create" /\ pc' \notin {"create", "fatal"}

\* C12: a remote call is made exactly when there is something to send.  The
\* ticker case makes the create-items call if and only if the pending add
\* map is not empty at the tick; a flush that the create-items call has not
\* ended makes the delete-items call if and only if the pending delete map
\* is not empty at the tick; and the request list of a call is never empty.
CallsOnlyWhenPending ==
    [][ /\ TickStep =>
              /\ (pc' = "create") <=> (addIPMap # {})
              /\ addIPMap = {} => ((pc' = "delete") <=> (deleteIPMap # {}))
              /\ pc' \in {"select", "create", "delete"}
              /\ deleteIPMap' = IF pc' = "select" THEN {} ELSE deleteIPMap
        /\ CreateReturns => ((pc' = "delete") <=> (deleteIPMap # {}))
        /\ (pc' = "create" /\ pc # "create") =>
              /\ addIPs' # <<>>
              /\ IPsOf(Range(addIPs')) = IPsOf(addIPMap)
        /\ (pc' = "delete" /\ pc # "delete") =>
              /\ deleteIPs' # <<>>
              /\ IDsOf(Range(deleteIPs')) = IDsOf(deleteIPMap)
      ]_vars

\* a flush has made the delete-items call and no create-items call
DeleteCallWithoutCreateCall ==
    /\ pc = "delete"
    /\ cycle = [Create |-> 0, Delete |-> 1]
    /\ addIPMap = {}

\* the window has collected new(ip) and then deleted(ip), and the deleted
\* decision found no remote identifier of ip in the index
AddThenDelete(ip) ==
    /\ KindsFor(ip) = <<"new", "deleted">>
    /\ ip \notin IPsOf(owedDel)

\* the identifiers of the items of ip on the remote list
RemoteIDsOf(ip) == {it.ID : it \in {x \in remote : x.IP = ip}}

\* what the flush of an add-then-delete window has done for ip by the
\* current state
AddThenDeleteState(ip) ==
    /\ pc = "select" =>
          /\ CreateRequest(ip) \in addIPMap
          /\ ip \notin DOMAIN cloudflareIDByIP
          /\ IDsOf(deleteIPMap) \cap RemoteIDsOf(ip) = {}
          /\ DeleteRequest(EmptyID) \notin deleteIPMap
    /\ pc = "create" =>
          /\ ItemsFor(addIPs, ip) = 1
          /\ IDsOf(deleteIPMap) \cap RemoteIDsOf(ip) = {}
    /\ pc = "delete" =>
          /\ cycle.Create = 1
          /\ ip \in DOMAIN cloudflareIDByIP
          /\ cloudflareIDByIP[ip] \in RemoteIDsOf(ip)
          /\ IDsOf(Range(deleteIPs)) \cap RemoteIDsOf(ip) = {}

\* C13: same-window add-then-delete of an IP that is not in the index.  The
\* deleted decision is dropped and the add stays pending: the next flush
\* sends a create request for the IP, sends no delete request for an item
\* of the IP, and ends with the IP in the index under the identifier of an
\* item of the remote list.
AddThenDeleteLeavesAdd ==
    /\ [](\A ip \in IPs : AddThenDelete(ip) => AddThenDeleteState(ip))
    /\ [][\A ip \in IPs :
             (AddThenDelete(ip) /\ Flushing /\ pc' = "select") =>
                 /\ ip \in DOMAIN cloudflareIDByIP'
                 /\ cloudflareIDByIP'[ip] \in {it.ID : it \in
                                       {x \in remote' : x.IP = ip}}
                 /\ cycle'.Create = 1
         ]_vars

\* the delete-items call of the flush of an add-then-delete window is in
\* flight
AddThenDeleteFlushInFlight ==
    /\ pc = "delete"
    /\ \E ip \in IPs : AddThenDelete(ip)

\* the last decision the window has collected for ip is a deleted decision
LastIsDeleted(ip) ==
    /\ KindsFor(ip) # <<>>
    /\ KindsFor(ip)[Len(KindsFor(ip))] = "deleted"

\* C14: an IP does not stay blocked after its unblock decision is
\* processed.  When a flush cycle completes and the last decision collected
\* for an IP before it is a deleted decision, the remote list holds no item
\* of the IP.
UnblockedAfterFlush ==
    [][\A ip \in IPs :
          (Flushing /\ pc' = "select" /\ LastIsDeleted(ip)) =>
              ip \notin IPsOf(remote')
      ]_vars

\* the IPs of the decisions of one kind the step has collected
StepIPs(kind) ==
    {StepDecisions[i].Value :
        i \in {j \in DOMAIN StepDecisions : StepDecisions[j].Kind = kind}}

\* C15: batch collection is purely in-memory.  Collecting a batch makes no
\* remote call and inserts no key into the index: it leaves the remote
\* list, the request slices and the progress of the loop alone, and it
\* changes the index only by removing the IPs of deleted decisions.  The new
\* decisions of a batch change only the pending add map, which gains their
\* create requests: a batch of new decisions leaves the pending delete map
\* and the index unchanged.  A key enters the index only when a
\* create-items call returns successfully.
CollectionIsInMemory ==
    [][ /\ CollectStep =>
              /\ UNCHANGED <<remote, nextID, pc, cycle, addIPs, deleteIPs,
                             failed>>
              /\ DOMAIN cloudflareIDByIP' =
                     DOMAIN cloudflareIDByIP \ StepIPs("deleted")
              /\ \A ip \in DOMAIN cloudflareIDByIP' :
                     cloudflareIDByIP'[ip] = cloudflareIDByIP[ip]
              /\ addIPMap' =
                     addIPMap \cup {CreateRequest(ip) : ip \in StepIPs("new")}
              /\ StepIPs("deleted") = {} =>
                     UNCHANGED <<deleteIPMap, cloudflareIDByIP>>
        /\ ~(DOMAIN cloudflareIDByIP' \subseteq DOMAIN cloudflareIDByIP) =>
              /\ pc = "create"
              /\ pc' # "fatal"
              /\ remote' # remote
      ]_vars

\* the window has collected new decisions only, one of them for an IP that
\* is not in the index
NewDecisionsCollected ==
    /\ pc = "select"
    /\ Stream = "idle"
    /\ wtrace # <<>>
    /\ \A i \in DOMAIN wtrace : wtrace[i].Kind = "new"
    /\ \E i \in DOMAIN wtrace : wtrace[i].Value \notin DOMAIN cloudflareIDByIP
    /\ deleteIPMap = {}

IDsLeft == nextID + Cardinality(IPs) <= MaxID + 1

\* C17: liveness of the flush.  When ticks keep firing and remote calls
\* succeed, the IP of a new decision waiting in the pending add map is
\* eventually in a create-items request, and a remoteID waiting in the
\* pending delete map is eventually in a delete-items request, however many
\* batches the stream offers to the select in between.
FlushIsLive ==
    []( /\ \A ip \in IPs :
              (pc = "select" /\ ip \in owedAdd /\ IDsLeft)
                  => <>(pc = "create" /\ ip \in SentAdd(addIPs))
        /\ \A id \in 1..MaxID :
              (pc = "select" /\ id \in IDsOf(owedDel) /\ IDsLeft)
                  => <>(pc = "delete" /\ id \in SentIDs(deleteIPs)) )

\* a flush has sent the adds and is sending the deletes of its window while
\* the stream offers the next batch
FlushSendsWhileBatchWaits ==
    /\ pc = "delete"
    /\ Stream = "ready"
    /\ cycle = [Create |-> 1, Delete |-> 1]
    /\ addIPs # <<>>
    /\ IDsOf(owedDel) \cap SentIDs(deleteIPs) # {}

==========================================================================
